---- MODULE Spec2Model ----
(***************************************************************************)
(* A state-machine model of the HajimiRef reference board: the canvas      *)
(* interaction handlers of Views/Canvas.py (RefItem, RefView), the board   *)
(* operations of Views/MainWindow.py and the codec of                      *)
(* ViewModels/MainViewModel.py.                                            *)
(*                                                                         *)
(* Numbers.  The program computes with floats.  The model computes with    *)
(* exact rationals <<n, d>> (d > 0, lowest terms); the pointer positions   *)
(* the environment offers are restricted to those where every Euclidean    *)
(* length the handlers take is itself rational, so that no rounding is     *)
(* modelled and none is needed.                                            *)
(*                                                                         *)
(* Toolkit.  The handlers run inside Qt's QGraphicsView / QGraphicsScene   *)
(* event delivery, which they reach through super().  The delivery rules   *)
(* the model uses are stated where they are defined (ScenePress,           *)
(* SceneMove, SceneRelease, DefaultItemPress, DefaultItemRelease,          *)
(* superMousePress, superMouseRelease).                                    *)
(***************************************************************************)
EXTENDS Integers, Sequences, FiniteSets, TLC

(***************************************************************************)
(* Exact rational arithmetic standing for Python floats.                   *)
(***************************************************************************)
RECURSIVE Gcd(_, _)
Gcd(a, b) == IF b = 0 THEN a ELSE Gcd(b, a % b)

Abs(n) == IF n < 0 THEN -n ELSE n

Rat(n, d) ==
    LET g == Gcd(Abs(n), Abs(d))
        s == IF d < 0 THEN -1 ELSE 1
    IN  <<(s * n) \div g, (s * d) \div g>>

RInt(k) == <<k, 1>>
Zero == RInt(0)
One == RInt(1)

RAdd(a, b) == Rat(a[1] * b[2] + b[1] * a[2], a[2] * b[2])
RSub(a, b) == Rat(a[1] * b[2] - b[1] * a[2], a[2] * b[2])
RMul(a, b) == Rat(a[1] * b[1], a[2] * b[2])
RDiv(a, b) == Rat(a[1] * b[2], a[2] * b[1])
RNeg(a) == <<-a[1], a[2]>>
RAbs(a) == <<Abs(a[1]), a[2]>>
RLt(a, b) == a[1] * b[2] < b[1] * a[2]
RLe(a, b) == a[1] * b[2] <= b[1] * a[2]
RMin(a, b) == IF RLe(a, b) THEN a ELSE b
RMax(a, b) == IF RLe(a, b) THEN b ELSE a

(* Integer square root by bisection: the largest k with k * k <= n. *)
RECURSIVE SqrtBetween(_, _, _)
SqrtBetween(n, lo, hi) ==
    IF hi - lo <= 1 THEN lo
    ELSE LET mid == (lo + hi) \div 2
         IN  IF mid * mid <= n THEN SqrtBetween(n, mid, hi)
                               ELSE SqrtBetween(n, lo, mid)

(* 46340 is the largest integer whose square fits the checker's integers. *)
ISqrt(n) == SqrtBetween(n, 0, IF n + 1 < 46340 THEN n + 1 ELSE 46340)

IsSquare(n) == n >= 0 /\ ISqrt(n) * ISqrt(n) = n

(***************************************************************************)
(* Points and rectangles (QPointF, QRectF, QLineF).                        *)
(***************************************************************************)
Pt(x, y) == [x |-> x, y |-> y]
IPt(x, y) == Pt(RInt(x), RInt(y))
Origin == IPt(0, 0)

PAdd(p, q) == Pt(RAdd(p.x, q.x), RAdd(p.y, q.y))
PSub(p, q) == Pt(RSub(p.x, q.x), RSub(p.y, q.y))
PScale(p, k) == Pt(RMul(p.x, k), RMul(p.y, k))

(* QPointF.manhattanLength *)
manhattanLength(p) == RAdd(RAbs(p.x), RAbs(p.y))

(* The square of QLineF(p, q).length(), as numerator and denominator. *)
LenSqNum(p, q) ==
    LET v == PSub(q, p)
    IN  v.x[1] * v.x[1] * v.y[2] * v.y[2] + v.y[1] * v.y[1] * v.x[2] * v.x[2]

LenDen(p, q) ==
    LET v == PSub(q, p) IN v.x[2] * v.y[2]

(* The squared length of v fits the checker's integers: each of its two    *)
(* terms is the square of a product of at most 32767.                      *)
Fits(v) ==
    /\ Abs(v.x[1]) <= 32767 \div v.y[2]
    /\ Abs(v.y[1]) <= 32767 \div v.x[2]

(* The inputs for which QLineF(p, q).length() is rational. *)
HasRationalLength(p, q) == Fits(PSub(q, p)) /\ IsSquare(LenSqNum(p, q))

(* QLineF(p, q).length() *)
QLineLength(p, q) == Rat(ISqrt(LenSqNum(p, q)), LenDen(p, q))

Rect(x, y, w, h) == [x |-> x, y |-> y, w |-> w, h |-> h]
NullRect == Rect(Zero, Zero, Zero, Zero)

isNull(r) == r.w = Zero /\ r.h = Zero
topLeft(r) == Pt(r.x, r.y)
topRight(r) == Pt(RAdd(r.x, r.w), r.y)
bottomLeft(r) == Pt(r.x, RAdd(r.y, r.h))
bottomRight(r) == Pt(RAdd(r.x, r.w), RAdd(r.y, r.h))

(* QRectF.united: a null rectangle is absorbed by the other one. *)
united(r, s) ==
    IF isNull(r) THEN s
    ELSE IF isNull(s) THEN r
    ELSE LET l == RMin(r.x, s.x)
             t == RMin(r.y, s.y)
             rg == RMax(RAdd(r.x, r.w), RAdd(s.x, s.w))
             bt == RMax(RAdd(r.y, r.h), RAdd(s.y, s.h))
         IN  Rect(l, t, RSub(rg, l), RSub(bt, t))


(***************************************************************************)
(* Image payloads.  A payload is the byte string of an image file; whether *)
(* QPixmap.loadFromData accepts it, and the pixmap size it yields, are     *)
(* facts of the decoder, given here for the payloads the model offers.     *)
(***************************************************************************)
PngA == <<137, 80, 78>>
PngB == <<255, 216>>
Garbage == <<0>>

Payloads == {PngA, PngB, Garbage}

(* QPixmap.loadFromData(data) *)
loadFromData(data) == data \in {PngA, PngB}

(* Half the width and half the height of RefItem.boundingRect(). *)
HalfExtent(data) == IF data = PngA THEN IPt(30, 40) ELSE IPt(3, 4)

(***************************************************************************)
(* RefItem: one placed image.                                              *)
(*   snap = "init"     _start_scale = 1.0 and _start_pos = None (__init__) *)
(*   snap = "set"      both hold the values stored by a press              *)
(*   snap = "deleted"  both attributes were deleted by a release           *)
(***************************************************************************)
Corners == {"tl", "tr", "bl", "br"}
NoCorner == "none"

RefItem(data) ==
    [ image_data   |-> data,
      pos          |-> Origin,
      scale        |-> One,
      rotation     |-> Zero,
      selected     |-> FALSE,
      is_resizing  |-> FALSE,
      resize_corner |-> NoCorner,
      snap         |-> "init",
      start_scale  |-> One,
      start_pos    |-> Origin,
      start_mouse_pos |-> Origin,
      anchor_scene_pos |-> Origin ]

(* RefItem.boundingRect(): centred on the origin (setOffset). *)
boundingRect(it) ==
    LET h == HalfExtent(it.image_data)
    IN  Rect(RNeg(h.x), RNeg(h.y), RMul(RInt(2), h.x), RMul(RInt(2), h.y))

(* QGraphicsItem.sceneBoundingRect() for rotation 0: the bounding rect     *)
(* mapped by pos and scale, normalised.                                    *)
sceneBoundingRect(it) ==
    LET h == HalfExtent(it.image_data)
        ex == RMul(RAbs(it.scale), h.x)
        ey == RMul(RAbs(it.scale), h.y)
    IN  Rect(RSub(it.pos.x, ex), RSub(it.pos.y, ey),
             RMul(RInt(2), ex), RMul(RInt(2), ey))

(* QGraphicsItem.mapFromScene for rotation 0 (scale # 0). *)
mapFromScene(it, p) ==
    Pt(RDiv(RSub(p.x, it.pos.x), it.scale), RDiv(RSub(p.y, it.pos.y), it.scale))

(* The item's shape (BoundingRectShape) holds scene point p.  With scale 0 *)
(* the scene transform is singular: the scene rectangle is the point pos,  *)
(* and the toolkit tests the shape with the inverse of the transform,      *)
(* which QTransform.inverted() gives as the identity for a singular one:   *)
(* the item is found at p = pos when p, read as a local point, lies in     *)
(* boundingRect().                                                         *)
InRect(r, p) ==
    /\ RLe(r.x, p.x) /\ RLe(p.x, RAdd(r.x, r.w))
    /\ RLe(r.y, p.y) /\ RLe(p.y, RAdd(r.y, r.h))

ShapeContains(it, p) ==
    IF it.scale = Zero
    THEN p = it.pos /\ InRect(boundingRect(it), p)
    ELSE InRect(sceneBoundingRect(it), p)

(* QGraphicsView.itemAt / the scene's topmost item at p: items later in    *)
(* the sequence are stacked above earlier ones.  0 when there is none.     *)
Topmost(hit) == IF hit = {} THEN 0 ELSE CHOOSE i \in hit : \A j \in hit : j <= i

ItemAt(its, p) == Topmost({i \in 1..Len(its) : ShapeContains(its[i], p)})

SelectedIdx(its) == {i \in 1..Len(its) : its[i].selected}

screen_margin == 20

(***************************************************************************)
(* RefItem.hoverMoveEvent at scene point p under view scale zoom.          *)
(* scale * zoom = 0 makes the margin division raise: the handler ends      *)
(* there and the item keeps its corner.                                    *)
(***************************************************************************)
HoverCorner(it, p, zoom) ==
    LET margin == RDiv(RInt(screen_margin), RMul(it.scale, zoom))
        pos == mapFromScene(it, p)
        rect == boundingRect(it)
    IN  IF RLt(manhattanLength(PSub(pos, topLeft(rect))), margin) THEN "tl"
        ELSE IF RLt(manhattanLength(PSub(pos, topRight(rect))), margin) THEN "tr"
        ELSE IF RLt(manhattanLength(PSub(pos, bottomLeft(rect))), margin) THEN "bl"
        ELSE IF RLt(manhattanLength(PSub(pos, bottomRight(rect))), margin) THEN "br"
        ELSE NoCorner

(* A faulty variant: the corner is armed whether or not the item is        *)
(* selected.                                                               *)
hoverMoveEventUnselected(it, p, zoom) ==
    IF RMul(it.scale, zoom) = Zero
    THEN it
    ELSE [it EXCEPT !.resize_corner = HoverCorner(it, p, zoom)]

hoverMoveEvent(it, p, zoom) ==
    IF it.selected
    THEN IF RMul(it.scale, zoom) = Zero
         THEN it
         ELSE [it EXCEPT !.resize_corner = HoverCorner(it, p, zoom)]
    ELSE [it EXCEPT !.resize_corner = NoCorner]

(***************************************************************************)
(* RefItem.mousePressEvent, resize branch (lines 116-143).                 *)
(* order is the order in which scene().selectedItems() yields the          *)
(* selected items (Qt leaves it unspecified).                              *)
(***************************************************************************)
RECURSIVE GroupRectFrom(_, _, _)
GroupRectFrom(its, order, acc) ==
    IF order = <<>> THEN acc
    ELSE GroupRectFrom(its, Tail(order), united(acc, sceneBoundingRect(its[Head(order)])))

(* A faulty variant: the rectangle of one selected item instead of the     *)
(* union over all of them.                                                 *)
GroupRectOfFirst(its, order) ==
    IF order = <<>> THEN NullRect ELSE sceneBoundingRect(its[Head(order)])

GroupRect(its, order) == GroupRectFrom(its, order, NullRect)

AnchorFor(corner, group_rect) ==
    IF corner = "tl" THEN bottomRight(group_rect)
    ELSE IF corner = "tr" THEN bottomLeft(group_rect)
    ELSE IF corner = "bl" THEN topRight(group_rect)
    ELSE topLeft(group_rect)

(* Lines 138-141: every selected item stores its scale and position. *)
StoreStart(it) ==
    IF it.selected
    THEN [it EXCEPT !.snap = "set", !.start_scale = it.scale, !.start_pos = it.pos]
    ELSE it

StartResize(its, i, p, order) ==
    LET anchor == AnchorFor(its[i].resize_corner, GroupRect(its, order))
        pressed == [its EXCEPT ![i].is_resizing = TRUE,
                               ![i].start_mouse_pos = p,
                               ![i].anchor_scene_pos = anchor]
    IN  [j \in 1..Len(its) |-> StoreStart(pressed[j])]

(***************************************************************************)
(* QGraphicsItem.mousePressEvent, reached through super() at line 145:     *)
(* a left press without Ctrl on an unselected selectable item clears the    *)
(* scene's selection and selects the item; on a selected item, or with     *)
(* Ctrl, it changes nothing.                                               *)
(***************************************************************************)
Mods == {"none", "shift", "ctrl"}

ClearSelection(its) == [j \in 1..Len(its) |-> [its[j] EXCEPT !.selected = FALSE]]

DefaultItemPress(its, i, b, mod) ==
    IF b = "left" /\ mod # "ctrl" /\ ~its[i].selected
    THEN [ClearSelection(its) EXCEPT ![i].selected = TRUE]
    ELSE its

(* RefItem.mousePressEvent *)
WouldResize(it, b) == b = "left" /\ it.resize_corner # NoCorner

itemMousePress(its, i, p, b, mod, order) ==
    IF WouldResize(its[i], b)
    THEN StartResize(its, i, p, order)
    ELSE DefaultItemPress(its, i, b, mod)

(***************************************************************************)
(* RefItem.mouseMoveEvent, resize branch (lines 152-171).                  *)
(* An item selected after the press still has _start_pos = None from       *)
(* __init__: setScale runs on it with _start_scale = 1.0, then the         *)
(* subtraction raises and the handler ends.  bad is the first such item    *)
(* the loop meets (0 if it meets none) and done the items it handled       *)
(* before.                                                                 *)
(***************************************************************************)
Epsilon == Rat(1, 100000)

Rescaled(it, anchor, ratio) ==
    [it EXCEPT !.scale = RMul(it.start_scale, ratio),
               !.pos = PAdd(anchor, PScale(PSub(it.start_pos, anchor), ratio))]

ResizeMove(its, i, p, bad, done) ==
    LET anchor == its[i].anchor_scene_pos
        start_dist == QLineLength(anchor, its[i].start_mouse_pos)
        current_dist == QLineLength(anchor, p)
    IN  IF RLt(start_dist, Epsilon) THEN its
        ELSE LET ratio == RDiv(current_dist, start_dist)
             IN  [j \in 1..Len(its) |->
                    IF j \in done /\ its[j].snap = "set"
                    THEN Rescaled(its[j], anchor, ratio)
                    ELSE IF j = bad
                    THEN [its[j] EXCEPT !.scale = RMul(its[j].start_scale, ratio)]
                    ELSE its[j]]

(* The loop orders the move handler can take: with no selected item left   *)
(* in the "init" state it handles every selected item.                     *)
LoopChoices(its) ==
    LET sel == SelectedIdx(its)
        fresh == {j \in sel : its[j].snap = "init"}
    IN  IF fresh = {}
        THEN {[bad |-> 0, done |-> sel]}
        ELSE {[bad |-> b, done |-> d] : b \in fresh, d \in SUBSET (sel \ fresh)}

(* RefItem.mouseMoveEvent.  The default handler behind super() drags the   *)
(* selected items while the left button is down; the pointer is not moved  *)
(* in those states (Dragging below), so it has nothing to do here.         *)
itemMouseMove(its, i, p, c) ==
    IF its[i].is_resizing THEN ResizeMove(its, i, p, c.bad, c.done) ELSE its

(***************************************************************************)
(* RefItem.mouseReleaseEvent (lines 179-190).                              *)
(* _start_mouse_pos and _anchor_scene_pos keep their values in the code;   *)
(* they are read only while _is_resizing and every press that sets         *)
(* _is_resizing writes them first, so the model forgets them here.         *)
(***************************************************************************)
DropStart(it) ==
    IF it.selected
    THEN [it EXCEPT !.snap = "deleted", !.start_scale = One, !.start_pos = Origin]
    ELSE it

(* QGraphicsItem.mouseReleaseEvent, reached through super() at line 190:   *)
(* a left release at the scene point of the left press (the pointer did    *)
(* not move) toggles the item with Ctrl and otherwise makes the item the   *)
(* only selected one.                                                      *)
DefaultItemRelease(its, i, b, p, down_pos, ctrl) ==
    IF b = "left" /\ p = down_pos
    THEN IF ctrl
         THEN [its EXCEPT ![i].selected = ~its[i].selected]
         ELSE [ClearSelection(its) EXCEPT ![i].selected = TRUE]
    ELSE its

itemMouseRelease(its, i, b, p, down_pos, ctrl) ==
    IF its[i].is_resizing
    THEN LET ended == [its EXCEPT ![i].is_resizing = FALSE,
                                  ![i].resize_corner = NoCorner,
                                  ![i].start_mouse_pos = Origin,
                                  ![i].anchor_scene_pos = Origin]
         IN  [j \in 1..Len(its) |-> DropStart(ended[j])]
    ELSE DefaultItemRelease(its, i, b, p, down_pos, ctrl)

(***************************************************************************)
(* QGraphicsScene event delivery, reached through the super() calls of     *)
(* RefView (lines 371, 383, 402, 414).                                     *)
(*  - With no mouse grabber a press first dispatches a hover event to the  *)
(*    topmost item under the pointer, then goes to that item, which        *)
(*    becomes the grabber, and the press is accepted; on empty canvas it   *)
(*    clears the selection (not with Ctrl) and is not accepted.            *)
(*  - With a grabber every press, move and release goes to the grabber; a  *)
(*    press is then accepted only if the item's handler accepts it, which  *)
(*    RefItem's resize branch does (line 143) and the default handler      *)
(*    does not.                                                            *)
(*  - With no grabber a move dispatches hover only while no button is      *)
(*    down.                                                                *)
(*  - A release that leaves no button down ungrabs the mouse and           *)
(*    dispatches a hover event.                                            *)
(***************************************************************************)
HoverAt(its, t, p, zoom) ==
    IF t = 0 THEN its ELSE [its EXCEPT ![t] = hoverMoveEvent(its[t], p, zoom)]

SceneHover(its, p, zoom) == HoverAt(its, ItemAt(its, p), p, zoom)

(* The press reaches the topmost item t under the pointer (0: none). *)
PressTopmost(hovered, t, p, b, mod, order) ==
    IF t = 0
    THEN [items |-> IF mod = "ctrl" THEN hovered ELSE ClearSelection(hovered),
          grabber |-> 0, started |-> FALSE, accepted |-> FALSE]
    ELSE [items |-> itemMousePress(hovered, t, p, b, mod, order), grabber |-> t,
          started |-> WouldResize(hovered[t], b), accepted |-> TRUE]

PressHovered(hovered, p, b, mod, order) ==
    PressTopmost(hovered, ItemAt(hovered, p), p, b, mod, order)

ScenePress(its, grab, p, b, mod, zoom, order) ==
    IF grab # 0
    THEN [items |-> itemMousePress(its, grab, p, b, mod, order), grabber |-> grab,
          started |-> WouldResize(its[grab], b) /\ ~its[grab].is_resizing,
          accepted |-> WouldResize(its[grab], b)]
    ELSE PressHovered(SceneHover(its, p, zoom), p, b, mod, order)

SceneMove(its, grab, p, down, zoom, c) ==
    IF grab # 0 THEN itemMouseMove(its, grab, p, c)
    ELSE IF down = {} THEN SceneHover(its, p, zoom)
    ELSE its

Released(released, grab, p, down, zoom) ==
    IF down = {}
    THEN [items |-> SceneHover(released, p, zoom), grabber |-> 0]
    ELSE [items |-> released, grabber |-> grab]

SceneRelease(its, grab, p, b, down, down_pos, ctrl, zoom) ==
    Released(IF grab # 0 THEN itemMouseRelease(its, grab, b, p, down_pos, ctrl) ELSE its,
             grab, p, down, zoom)

(***************************************************************************)
(* MainWindow.create_item_from_data (lines 174-185).                       *)
(***************************************************************************)
create_item_from_data(its, data, x, y, scale) ==
    IF loadFromData(data)
    THEN Append(its, [RefItem(data) EXCEPT !.pos = Pt(x, y), !.scale = scale])
    ELSE its

(* MainWindow.load_board, lines 265-272: the scene is cleared and one item *)
(* is created from each decoded record, in the order of the list.          *)
(* A JSON number is carried as a fraction <<n, d>>; a JSON string is the   *)
(* sequence of its characters, here Text, three characters long.           *)
Text == <<97, 98, 99>>

IsNumber(v) == Len(v) = 2

(* item.setPos(x, y) and item.setScale(scale) (lines 181-182) raise         *)
(* TypeError for a value that is not a number.                              *)
Applies(rec) == IsNumber(rec.x) /\ IsNumber(rec.y) /\ IsNumber(rec.scale)

(* The record makes create_item_from_data raise: its data loads as a       *)
(* pixmap and its x, y or scale cannot be applied.                          *)
Raises(rec) == loadFromData(rec.data) /\ ~Applies(rec)

(* The exception leaves load_board: the records after it are not reached.  *)
RECURSIVE CreateAll(_, _)
CreateAll(its, result) ==
    IF result = <<>> \/ Raises(Head(result)) THEN its
    ELSE CreateAll(create_item_from_data(its, Head(result).data, Head(result).x,
                                         Head(result).y, Head(result).scale),
                   Tail(result))

(***************************************************************************)
(* Base64 (base64.b64encode, base64.b64decode).  A text is a sequence of   *)
(* symbols: 0..63 the alphabet, Pad the "=" sign, any other number a       *)
(* character outside the alphabet.                                         *)
(***************************************************************************)
Pad == 64

(* A faulty variant of the encoder: the padding is left out. *)
RECURSIVE b64encodeUnpadded(_)
b64encodeUnpadded(bytes) ==
    IF bytes = <<>> THEN <<>>
    ELSE IF Len(bytes) = 1
    THEN <<bytes[1] \div 4, (bytes[1] % 4) * 16>>
    ELSE IF Len(bytes) = 2
    THEN <<bytes[1] \div 4, (bytes[1] % 4) * 16 + bytes[2] \div 16, (bytes[2] % 16) * 4>>
    ELSE <<bytes[1] \div 4, (bytes[1] % 4) * 16 + bytes[2] \div 16,
           (bytes[2] % 16) * 4 + bytes[3] \div 64, bytes[3] % 64>>
         \o b64encodeUnpadded(SubSeq(bytes, 4, Len(bytes)))

RECURSIVE b64encode(_)
b64encode(bytes) ==
    IF bytes = <<>> THEN <<>>
    ELSE IF Len(bytes) = 1
    THEN <<bytes[1] \div 4, (bytes[1] % 4) * 16, Pad, Pad>>
    ELSE IF Len(bytes) = 2
    THEN <<bytes[1] \div 4, (bytes[1] % 4) * 16 + bytes[2] \div 16, (bytes[2] % 16) * 4, Pad>>
    ELSE <<bytes[1] \div 4, (bytes[1] % 4) * 16 + bytes[2] \div 16,
           (bytes[2] % 16) * 4 + bytes[3] \div 64, bytes[3] % 64>>
         \o b64encode(SubSeq(bytes, 4, Len(bytes)))

(* The bytes a group of 2, 3 or 4 alphabet symbols stands for. *)
QuadBytes(q) ==
    IF Len(q) = 2 THEN <<q[1] * 4 + q[2] \div 16>>
    ELSE IF Len(q) = 3
    THEN <<q[1] * 4 + q[2] \div 16, (q[2] % 16) * 16 + q[3] \div 4>>
    ELSE <<q[1] * 4 + q[2] \div 16, (q[2] % 16) * 16 + q[3] \div 4, (q[3] % 4) * 64 + q[4]>>

(* binascii.a2b_base64, not strict: characters outside the alphabet are    *)
(* skipped, a completed padding ends the input, and input that ends inside *)
(* a group raises (ok = FALSE).                                            *)
RECURSIVE a2b_base64(_, _, _)
a2b_base64(text, quad, pads) ==
    IF text = <<>>
    THEN [ok |-> quad = <<>>, bytes |-> <<>>]
    ELSE IF Head(text) = Pad
    THEN IF Len(quad) >= 2 /\ Len(quad) + pads + 1 >= 4
         THEN [ok |-> TRUE, bytes |-> QuadBytes(quad)]
         ELSE a2b_base64(Tail(text), quad, pads + 1)
    ELSE IF Head(text) \notin 0..63
    THEN a2b_base64(Tail(text), quad, pads)
    ELSE IF Len(quad) = 3
    THEN LET rest == a2b_base64(Tail(text), <<>>, 0)
         IN  [ok |-> rest.ok, bytes |-> QuadBytes(Append(quad, Head(text))) \o rest.bytes]
    ELSE a2b_base64(Tail(text), Append(quad, Head(text)), 0)

b64decode(text) == a2b_base64(text, <<>>, 0)

(***************************************************************************)
(* Board documents.  A document is the JSON object of a board file: a      *)
(* record whose "images" list holds records with any of the keys x, y,     *)
(* scale, rotation, data.  json.dump writes a float with repr and          *)
(* json.load reads that text back to the same float, so a number is        *)
(* carried as it is; Malformed is a file json.load rejects and NoFile a    *)
(* path that cannot be opened.                                             *)
(***************************************************************************)
NoFile == [absent |-> TRUE]
Malformed == [malformed |-> TRUE]

(* A JSON value that is not an object (a number, a list): .get on it       *)
(* raises AttributeError.                                                  *)
NotObject == [scalar |-> TRUE]
IsObject(v) == "scalar" \notin DOMAIN v

Get(rec, key, default) == IF key \in DOMAIN rec THEN rec[key] ELSE default

Reverse(seq) == [k \in 1..Len(seq) |-> seq[Len(seq) + 1 - k]]

(* RefItem.to_dict *)
to_dict(it) ==
    [ x |-> it.pos.x, y |-> it.pos.y, scale |-> it.scale, rotation |-> it.rotation,
      data |-> b64encode(it.image_data) ]

(* A faulty variant of the loop of save_board: it takes the selected      *)
(* items only.                                                             *)
items_dataOfSelected(its) ==
    [k \in 1..Len(SelectSeq(Reverse(its), LAMBDA it : it.selected)) |->
        to_dict(SelectSeq(Reverse(its), LAMBDA it : it.selected)[k])]

(* MainWindow.save_board, lines 245-248: scene.items() lists the items     *)
(* topmost first.                                                          *)
items_data(its) == [k \in 1..Len(its) |-> to_dict(Reverse(its)[k])]

(* MainViewModel.save_board_data: the document written. *)
save_board_data(data) == [version |-> 2, images |-> data]

(* A faulty variant of the decoding loop: it ends at the first record     *)
(* whose data is absent or does not decode, where the code continues.      *)
RECURSIVE DecodeImagesUntilCorrupt(_)
DecodeImagesUntilCorrupt(images) ==
    IF images = <<>> THEN <<>>
    ELSE LET img_data == Head(images)
             b64_data == Get(img_data, "data", <<>>)
             img_bytes == b64decode(b64_data)
         IN  IF b64_data # <<>> /\ img_bytes.ok
             THEN <<[x |-> Get(img_data, "x", Zero), y |-> Get(img_data, "y", Zero),
                     scale |-> Get(img_data, "scale", One), data |-> img_bytes.bytes]>>
                  \o DecodeImagesUntilCorrupt(Tail(images))
             ELSE <<>>

(* A faulty variant of the decoding loop: a record without scale gets     *)
(* the scale 0.                                                            *)
RECURSIVE DecodeImagesScaleZero(_)
DecodeImagesScaleZero(images) ==
    IF images = <<>> THEN <<>>
    ELSE LET img_data == Head(images)
             b64_data == Get(img_data, "data", <<>>)
             img_bytes == b64decode(b64_data)
         IN  IF b64_data # <<>> /\ img_bytes.ok
             THEN <<[x |-> Get(img_data, "x", Zero), y |-> Get(img_data, "y", Zero),
                     scale |-> Get(img_data, "scale", Zero), data |-> img_bytes.bytes]>>
                  \o DecodeImagesScaleZero(Tail(images))
             ELSE DecodeImagesScaleZero(Tail(images))

(* MainViewModel.load_board_data, lines 43-56: the records decoded. *)
RECURSIVE DecodeImages(_)
DecodeImages(images) ==
    IF images = <<>> THEN <<>>
    ELSE LET img_data == Head(images)
             b64_data == Get(img_data, "data", <<>>)
             img_bytes == b64decode(b64_data)
         IN  IF b64_data # <<>> /\ img_bytes.ok
             THEN <<[x |-> Get(img_data, "x", Zero), y |-> Get(img_data, "y", Zero),
                     scale |-> Get(img_data, "scale", One), data |-> img_bytes.bytes]>>
                  \o DecodeImages(Tail(images))
             ELSE DecodeImages(Tail(images))

(* Line 44 is outside the inner try: a record that is not an object       *)
(* fails the whole load, like a root that is not an object (line 43).      *)
AllObjects(images) == \A k \in 1..Len(images) : IsObject(images[k])

load_board_data(doc) ==
    IF doc \in {NoFile, Malformed, NotObject} \/ ~AllObjects(Get(doc, "images", <<>>))
    THEN [success |-> FALSE, result |-> <<>>]
    ELSE [success |-> TRUE, result |-> DecodeImages(Get(doc, "images", <<>>))]

(***************************************************************************)
(* State.                                                                  *)
(*   items    the scene's RefItems, bottom of the stack first              *)
(*   grabber  the scene's mouse grabber item (index into items), 0 if none *)
(*   view     RefView: _is_panning, _pan_start, _space_pressed, the view   *)
(*            scale transform().m11(), the scroll bar values, and of the   *)
(*            QGraphicsView beneath it whether a rubber band is active     *)
(*            and the scene point of the last press it handled             *)
(*   mouse    the pointer's position in view coordinates                   *)
(*   buttons  the mouse buttons that are down                              *)
(*   gestures the number of resize gestures entered so far                 *)
(*   presses  the number of mouse button presses so far                    *)
(*   file     the board file on disk: a document, or NoFile                *)
(*   notches  the wheel events so far, oldest first                        *)
(*   dropped  the multi-path imports so far: the paths and the point       *)
(***************************************************************************)
VARIABLES items, grabber, view, mouse, buttons, gestures, presses, file, notches,
          dropped

vars == <<items, grabber, view, mouse, buttons, gestures, presses, file, notches,
         dropped>>

(* Bounds of the exploration. *)
MaxGestures == 1
MaxPresses == 4
MaxPanSteps == 1

(* QGraphicsView.mapToScene / mapFromScene for the view's scale and scroll. *)
mapToScene(v, m) == PScale(PAdd(m, v.scroll), RDiv(One, v.zoom))
viewFromScene(v, p) == PSub(PScale(p, v.zoom), v.scroll)

MouseScene == mapToScene(view, mouse)

(* The scene points the pointer visits and the step of a pan drag. *)
ScenePoints ==
    { IPt(0, 0), IPt(60, 80), IPt(-54, -72), IPt(54, -72), IPt(-54, 72),
      IPt(75, 100), IPt(90, 120) }

PanDelta == IPt(10, 0)

(* The board the program starts from: the records load_board_data returns  *)
(* for its file, already decoded.                                          *)
Record(x, y, scale, data) == [x |-> RInt(x), y |-> RInt(y), scale |-> scale, data |-> data]

StartBoard == <<Record(0, 0, RInt(2), PngA), Record(72, 96, One, PngB)>>

RefView ==
    [ is_panning |-> FALSE, pan_start |-> Origin, space_pressed |-> FALSE,
      zoom |-> One, scroll |-> Origin, rubber_banding |-> FALSE, press_point |-> Origin ]

Init ==
    /\ items = CreateAll(<<>>, StartBoard)
    /\ grabber = 0
    /\ view = RefView
    /\ mouse = IPt(90, 120)
    /\ buttons = {}
    /\ gestures = 0
    /\ presses = 0
    /\ file = NoFile
    /\ notches = <<>>
    /\ dropped = <<>>

(* The orders in which selectedItems() can yield the selected items; the   *)
(* united rectangle depends on the order only when every one is null.      *)
Orders(its) ==
    LET S == SelectedIdx(its)
        asc == CHOOSE o \in [1..Cardinality(S) -> S] :
                  \A a, b \in 1..Cardinality(S) : a < b => o[a] < o[b]
    IN  IF \E j \in S : ~isNull(sceneBoundingRect(its[j]))
        THEN {asc}
        ELSE {o \in [1..Cardinality(S) -> S] :
                 \A a, b \in 1..Cardinality(S) : a # b => o[a] # o[b]}

(***************************************************************************)
(* RefView.mousePressEvent (lines 349-383).                                *)
(***************************************************************************)
IsPanPress(v, b) == b = "middle" \/ (b = "left" /\ v.space_pressed)

Restore(its, previous_selection) ==
    [j \in 1..Len(its) |->
        IF j \in previous_selection THEN [its[j] EXCEPT !.selected = TRUE] ELSE its[j]]

(* QGraphicsView.mousePressEvent, reached through super() at lines 371 and *)
(* 383 (drag mode RubberBandDrag, line 260): the press goes to the scene;  *)
(* if the scene does not accept it and no rubber band is active, one       *)
(* starts and, without Ctrl, the selection is cleared.  The scene point of *)
(* the press is kept for the release; the model keeps it only while an     *)
(* item holds the grab, as only that item's release handler reads it.      *)
AfterScenePress(r, v, p, mod) ==
    LET band == ~r.accepted /\ ~v.rubber_banding
    IN  [items |-> IF band /\ mod # "ctrl" THEN ClearSelection(r.items) ELSE r.items,
         grabber |-> r.grabber,
         started |-> r.started,
         view |-> [v EXCEPT !.rubber_banding = v.rubber_banding \/ band,
                            !.press_point = IF r.grabber = 0 THEN Origin ELSE p]]

superMousePress(its, grab, v, m, b, mod, order) ==
    AfterScenePress(ScenePress(its, grab, mapToScene(v, m), b, mod, v.zoom, order),
                    v, mapToScene(v, m), mod)

(* Lines 362-381, with sup the outcome of super().mousePressEvent. *)
ToggleClicked(its, item, sup) ==
    LET previous_selection == SelectedIdx(its)
        was_selected == its[item].selected
        restored == Restore(sup.items, previous_selection)
    IN  [sup EXCEPT !.items = [restored EXCEPT ![item].selected = ~was_selected]]

ShiftClick(its, grab, v, m, order) ==
    ToggleClicked(its, ItemAt(its, mapToScene(v, m)),
                  superMousePress(its, grab, v, m, "left", "shift", order))

viewMousePress(its, grab, v, m, b, mod, order) ==
    IF IsPanPress(v, b)
    THEN [items |-> its, grabber |-> grab, started |-> FALSE,
          view |-> [v EXCEPT !.is_panning = TRUE, !.pan_start = m]]
    ELSE IF b = "left" /\ mod = "shift" /\ ItemAt(its, mapToScene(v, m)) # 0
    THEN ShiftClick(its, grab, v, m, order)
    ELSE superMousePress(its, grab, v, m, b, mod, order)

(* Every resize in progress has a rational start length and, for the       *)
(* pointer at scene point p, a rational current length.                    *)
LengthsRational(its, p) ==
    \A j \in 1..Len(its) :
        its[j].is_resizing =>
            /\ HasRationalLength(its[j].anchor_scene_pos, its[j].start_mouse_pos)
            /\ HasRationalLength(its[j].anchor_scene_pos, p)

MousePress(b, mod) ==
    /\ b \notin buttons
    /\ presses < MaxPresses
    /\ presses' = presses + 1
    /\ \E order \in Orders(items) :
         \E r \in {viewMousePress(items, grabber, view, mouse, b, mod, order)} :
             /\ gestures' = gestures + (IF r.started THEN 1 ELSE 0)
             /\ gestures' <= MaxGestures
             /\ LengthsRational(r.items, MouseScene)
             /\ items' = r.items
             /\ grabber' = r.grabber
             /\ view' = r.view
    /\ buttons' = buttons \cup {b}
    /\ UNCHANGED <<mouse, file, notches, dropped>>

(***************************************************************************)
(* RefView.mouseMoveEvent (lines 385-402).                                 *)
(***************************************************************************)
(* A faulty variant: the pan branch leaves _pan_start where it was. *)
viewMouseMoveNoRebase(its, grab, v, m, down, c) ==
    IF v.is_panning
    THEN LET delta == PSub(m, v.pan_start)
         IN  [items |-> its, view |-> [v EXCEPT !.scroll = PSub(v.scroll, delta)]]
    ELSE [items |-> SceneMove(its, grab, mapToScene(v, m), down, v.zoom, c), view |-> v]

(* A faulty variant: the pan branch scrolls and then hands the move on to   *)
(* the scene.                                                              *)
viewMouseMovePassedOn(its, grab, v, m, down, c) ==
    [items |-> SceneMove(its, grab, mapToScene(v, m), down, v.zoom, c),
     view |-> IF v.is_panning
              THEN [v EXCEPT !.pan_start = m, !.scroll = PSub(v.scroll, PSub(m, v.pan_start))]
              ELSE v]

viewMouseMove(its, grab, v, m, down, c) ==
    IF v.is_panning
    THEN LET delta == PSub(m, v.pan_start)
         IN  [items |-> its,
              view |-> [v EXCEPT !.pan_start = m, !.scroll = PSub(v.scroll, delta)]]
    ELSE [items |-> SceneMove(its, grab, mapToScene(v, m), down, v.zoom, c), view |-> v]

(* The positions the pointer moves to: while panning one step of the drag  *)
(* (at most MaxPanSteps steps in all), otherwise over a scene point.       *)
MoveTargets ==
    IF view.is_panning
    THEN {q \in {PAdd(mouse, PanDelta)} :
             LET s == PSub(view.scroll, PSub(q, view.pan_start))
             IN  RLe(RAbs(s.x), RMul(PanDelta.x, RInt(MaxPanSteps)))}
    ELSE {viewFromScene(view, p) : p \in ScenePoints}

(* The toolkit would drag the selected items with the pointer or stretch   *)
(* the rubber band (QGraphicsItem.mouseMoveEvent, QGraphicsView's rubber   *)
(* band, behind super() at lines 173 and 402).  The pointer is kept still  *)
(* in these states: drags of items and of the rubber band are outside the  *)
(* runs explored.                                                          *)
Dragging ==
    /\ ~view.is_panning
    /\ \/ view.rubber_banding
       \/ grabber # 0 /\ ~items[grabber].is_resizing /\ "left" \in buttons

MouseMove(q) ==
    /\ q # mouse
    /\ ~Dragging
    /\ view.is_panning \/ LengthsRational(items, mapToScene(view, q))
    /\ \E c \in LoopChoices(items) :
         \E r \in {viewMouseMove(items, grabber, view, q, buttons, c)} :
             /\ items' = r.items
             /\ view' = r.view
    /\ mouse' = q
    /\ UNCHANGED <<grabber, buttons, gestures, presses, file, notches, dropped>>

(***************************************************************************)
(* RefView.mouseReleaseEvent (lines 404-414).                              *)
(* _pan_start keeps its value in the code; it is read only while           *)
(* _is_panning and every press that sets _is_panning writes it first, so   *)
(* the model forgets it here.                                              *)
(***************************************************************************)
(* QGraphicsView.mouseReleaseEvent, reached through super() at line 414: a *)
(* release that leaves no button down ends the rubber band; the release    *)
(* goes to the scene with the scene point of the last press.               *)
AfterSceneRelease(r, v, down) ==
    [items |-> r.items, grabber |-> r.grabber,
     view |-> [v EXCEPT !.rubber_banding = v.rubber_banding /\ down # {},
                        !.press_point = IF r.grabber = 0 THEN Origin ELSE v.press_point]]

superMouseRelease(its, grab, v, m, b, down, ctrl) ==
    AfterSceneRelease(
        SceneRelease(its, grab, mapToScene(v, m), b, down, v.press_point, ctrl, v.zoom),
        v, down)

viewMouseRelease(its, grab, v, m, b, down, ctrl) ==
    IF v.is_panning
    THEN [items |-> its, grabber |-> grab,
          view |-> [v EXCEPT !.is_panning = FALSE, !.pan_start = Origin]]
    ELSE superMouseRelease(its, grab, v, m, b, down, ctrl)

MouseRelease(b, ctrl) ==
    /\ b \in buttons
    /\ \E r \in {viewMouseRelease(items, grabber, view, mouse, b, buttons \ {b}, ctrl)} :
           /\ items' = r.items
           /\ grabber' = r.grabber
           /\ view' = r.view
    /\ buttons' = buttons \ {b}
    /\ UNCHANGED <<mouse, gestures, presses, file, notches, dropped>>

(***************************************************************************)
(* RefView.keyPressEvent / keyReleaseEvent (lines 416-434), space key.     *)
(***************************************************************************)
keyPressEvent(v) == [v EXCEPT !.space_pressed = TRUE]

(* A faulty variant: letting go of the space key also ends the pan. *)
keyReleaseEventEndsPan(v) == [v EXCEPT !.space_pressed = FALSE, !.is_panning = FALSE]

keyReleaseEvent(v) == [v EXCEPT !.space_pressed = FALSE]

KeyPressSpace ==
    /\ ~view.space_pressed
    /\ view' = keyPressEvent(view)
    /\ UNCHANGED <<items, grabber, mouse, buttons, gestures, presses, file, notches, dropped>>

KeyReleaseSpace ==
    /\ view.space_pressed
    /\ view' = keyReleaseEvent(view)
    /\ UNCHANGED <<items, grabber, mouse, buttons, gestures, presses, file, notches, dropped>>

Buttons == {"left", "middle"}

Next ==
    \/ \E b \in Buttons, mod \in Mods : MousePress(b, mod)
    \/ \E q \in MoveTargets : MouseMove(q)
    \/ \E b \in Buttons, ctrl \in BOOLEAN : MouseRelease(b, ctrl)
    \/ KeyPressSpace
    \/ KeyReleaseSpace

Spec == Init /\ [][Next]_vars

(***************************************************************************)
(* Board operations of MainWindow: dropping an image file on the canvas,   *)
(* saving the board to the file and loading the board from it.  Another    *)
(* program may have written the file in between (WriteFile).               *)
(***************************************************************************)
MaxItems == 3

(* MainWindow.load_image_file: an unreadable or empty file creates nothing. *)
load_image_file(its, data, x, y) ==
    IF data # <<>> THEN create_item_from_data(its, data, x, y, One) ELSE its

(* MainWindow.save_board: the document that reaches the file. *)
save_board(its) == save_board_data(items_data(its))

(* MainWindow.load_board: on failure the scene is left as it is. *)
load_board(its, doc) ==
    LET r == load_board_data(doc)
    IN  IF r.success THEN CreateAll(<<>>, r.result) ELSE its

DropPoints == {IPt(0, 0), IPt(20, 20)}

(* The files other programs leave: records without coordinates, with a     *)
(* zero or negative scale, with a rotation, and with data that is absent,  *)
(* empty, cut short or a file that is no image.                            *)
Documents ==
    { Malformed,
      NotObject,
      [version |-> 2],
      [version |-> 2,
       images |-> << [x |-> RInt(8), y |-> RInt(9), scale |-> RInt(2),
                      data |-> b64encode(PngB)],
                     NotObject >>],
      [version |-> 2,
       images |-> << [x |-> RInt(6), y |-> RInt(6), scale |-> One,
                      data |-> b64encode(PngA)],
                     [x |-> Text, y |-> RInt(1), scale |-> One, data |-> b64encode(PngB)],
                     [x |-> RInt(7), y |-> RInt(7), scale |-> One,
                      data |-> b64encode(PngB)] >>],
      [version |-> 2,
       images |-> << [data |-> b64encode(PngB)],
                     [x |-> RInt(5), y |-> RInt(7), scale |-> Zero, rotation |-> RInt(90),
                      data |-> b64encode(PngA)],
                     [x |-> RInt(1), y |-> RInt(1), scale |-> One, data |-> <<1, 2, 3>>] >>],
      [version |-> 2,
       images |-> << [x |-> Rat(1, 2), y |-> RInt(-3), scale |-> Rat(-3, 2),
                      data |-> b64encode(PngA)],
                     [x |-> RInt(2), y |-> RInt(2), scale |-> One],
                     [x |-> RInt(3), y |-> RInt(3), scale |-> One, data |-> <<>>],
                     [x |-> RInt(4), y |-> RInt(4), scale |-> RInt(3),
                      data |-> b64encode(Garbage)],
                     [x |-> RInt(9), y |-> RInt(9), scale |-> One,
                      data |-> b64encode(PngB)] >>] }

DropFile(data, p) ==
    /\ Len(items) < MaxItems
    /\ items' = load_image_file(items, data, p.x, p.y)
    /\ UNCHANGED <<grabber, view, mouse, buttons, gestures, presses, file, notches, dropped>>

(* MainViewModel.save_board_data, lines 26-31.  fault is the step at which *)
(* the operating system fails the save: "open" (line 27 raises, the file   *)
(* is as it was), "write" (json.dump raises after open(path, "w") has      *)
(* truncated the file: what is left is the beginning of a document, which  *)
(* json.load rejects) or "none".                                           *)
Faults == {"none", "open", "write"}

Written(previous, doc, fault) ==
    IF fault = "open" THEN previous
    ELSE IF fault = "write" THEN Malformed
    ELSE doc

SaveBoard(fault) ==
    /\ file' = Written(file, save_board(items), fault)
    /\ UNCHANGED <<items, grabber, view, mouse, buttons, gestures, presses, notches, dropped>>

(* The file is chosen in a modal dialog: no button is down on the canvas    *)
(* and no item holds the mouse when load_board runs.                       *)
LoadBoard ==
    /\ file # NoFile
    /\ buttons = {}
    /\ items' = load_board(items, file)
    /\ UNCHANGED <<grabber, view, mouse, buttons, gestures, presses, file, notches, dropped>>

WriteFile(doc) ==
    /\ file' = doc
    /\ UNCHANGED <<items, grabber, view, mouse, buttons, gestures, presses, notches, dropped>>

(* RefView.wheelEvent, Canvas.py 332-347.  dy is event.angleDelta().y()   *)
(* and ctrl the Control modifier.  QGraphicsView.scale multiplies the view *)
(* transform and, with the AnchorUnderMouse set at line 258, scrolls so    *)
(* that the scene point under the pointer m stays under it.                *)
WheelFactor(dy) == IF dy > 0 THEN Rat(11, 10) ELSE Rat(9, 10)

ScaleSelected(its, factor) ==
    [i \in 1..Len(its) |->
        IF its[i].selected THEN [its[i] EXCEPT !.scale = RMul(@, factor)]
        ELSE its[i]]

viewScale(v, m, factor) ==
    [v EXCEPT !.zoom = RMul(v.zoom, factor),
              !.scroll = PSub(PScale(mapToScene(v, m), RMul(v.zoom, factor)), m)]

wheelEventFallsThrough(its, v, m, dy, ctrl) ==
    IF ctrl /\ SelectedIdx(its) # {}
    THEN [items |-> ScaleSelected(its, WheelFactor(dy)), view |-> v]
    ELSE [items |-> its, view |-> viewScale(v, m, WheelFactor(dy))]

wheelEvent(its, v, m, dy, ctrl) ==
    IF ctrl
    THEN [items |-> IF SelectedIdx(its) # {}
                    THEN ScaleSelected(its, WheelFactor(dy))
                    ELSE its,
          view |-> v]
    ELSE [items |-> its, view |-> viewScale(v, m, WheelFactor(dy))]

(* One notch of the wheel is 120 eighths of a degree; a horizontal wheel   *)
(* or a touchpad reports a vertical delta of 0.                            *)
MaxNotches == 2
WheelDeltas == {-120, 0, 120}

Wheel(dy, ctrl) ==
    /\ Len(notches) < MaxNotches
    /\ \E r \in {wheelEvent(items, view, mouse, dy, ctrl)} :
         /\ items' = r.items
         /\ view' = r.view
    /\ notches' = Append(notches, [dy |-> dy, ctrl |-> ctrl])
    /\ UNCHANGED <<grabber, mouse, buttons, gestures, presses, file, dropped>>

(* MainWindow.delete_selected, lines 187-192: removeItem for each item of  *)
(* scene.selectedItems().  It is run between gestures, when no item holds  *)
(* the mouse.                                                              *)
Unselected(it) == ~it.selected

delete_selectedFirst(its) ==
    IF SelectedIdx(its) = {} THEN its
    ELSE LET k == CHOOSE i \in SelectedIdx(its) : \A j \in SelectedIdx(its) : i <= j
         IN  [i \in 1..(Len(its) - 1) |-> IF i < k THEN its[i] ELSE its[i + 1]]

delete_selected(its) == SelectSeq(its, Unselected)

DeleteSelected ==
    /\ buttons = {}
    /\ items' = delete_selected(items)
    /\ UNCHANGED <<grabber, view, mouse, buttons, gestures, presses, file, notches, dropped>>

NextCodec ==
    \/ \E data \in Payloads, p \in DropPoints : DropFile(data, p)
    \/ \E fault \in Faults : SaveBoard(fault)
    \/ LoadBoard
    \/ \E doc \in Documents : WriteFile(doc)

(* The board operations start from the board of Init with its first item   *)
(* selected, as a click on it leaves it.                                   *)
InitCodec ==
    /\ items = [CreateAll(<<>>, StartBoard) EXCEPT ![1].selected = TRUE]
    /\ grabber = 0
    /\ view = RefView
    /\ mouse = IPt(90, 120)
    /\ buttons = {}
    /\ gestures = 0
    /\ presses = 0
    /\ file = NoFile
    /\ notches = <<>>
    /\ dropped = <<>>

SpecCodec == InitCodec /\ [][NextCodec]_vars

(* The import of several paths: RefView.dropEvent (Canvas.py 303-308),     *)
(* MainWindow.paste_image (lines 216-229) and MainWindow.add_images (lines *)
(* 148-152) run the same loop.  A path is what the loop finds there: local *)
(* is url.isLocalFile() (for a pasted line, that the file exists), data is *)
(* what read_image_file returns, <<>> when the read fails.  The offset     *)
(* grows by 20 for every path that passes the test, whatever               *)
(* load_image_file made of it.                                             *)
Path(local, data) == [local |-> local, data |-> data]

Paths ==
    { Path(TRUE, PngA), Path(TRUE, Garbage), Path(TRUE, <<>>), Path(FALSE, PngA) }

RECURSIVE ImportUrlsUntilFailure(_, _, _, _)
ImportUrlsUntilFailure(its, paths, p, offset) ==
    IF paths = <<>> \/ ~Head(paths).local \/ ~loadFromData(Head(paths).data) THEN its
    ELSE ImportUrlsUntilFailure(
             load_image_file(its, Head(paths).data,
                             RAdd(p.x, RInt(offset)), RAdd(p.y, RInt(offset))),
             Tail(paths), p, offset + 20)

RECURSIVE ImportUrls(_, _, _, _)
ImportUrls(its, paths, p, offset) ==
    IF paths = <<>> THEN its
    ELSE IF Head(paths).local
    THEN ImportUrls(load_image_file(its, Head(paths).data,
                                    RAdd(p.x, RInt(offset)), RAdd(p.y, RInt(offset))),
                    Tail(paths), p, offset + 20)
    ELSE ImportUrls(its, Tail(paths), p, offset)

MaxPaths == 3
MaxImports == 1

PathLists == UNION { [1..n -> Paths] : n \in 1..MaxPaths }

DropUrls(paths, p) ==
    /\ Len(dropped) < MaxImports
    /\ items' = ImportUrls(items, paths, p, 0)
    /\ dropped' = Append(dropped, [paths |-> paths, p |-> p])
    /\ UNCHANGED <<grabber, view, mouse, buttons, gestures, presses, file, notches>>

(***************************************************************************)
(* The single-file application, main.py.  MainWindow.load_board (lines     *)
(* 372-395) parses the file, clears the scene and then decodes and creates *)
(* record by record inside one try: whatever raises after the parse ends   *)
(* the loop and leaves the scene with the items created so far.  ok tells  *)
(* whether the load came to its end.  create_item_from_data (lines         *)
(* 300-308) is the one of MainWindow.py.                                   *)
(***************************************************************************)
RECURSIVE LegacyCreateAll(_, _)
LegacyCreateAll(its, images) ==
    IF images = <<>> THEN [items |-> its, ok |-> TRUE]
    ELSE IF ~IsObject(Head(images)) THEN [items |-> its, ok |-> FALSE]
    ELSE IF Get(Head(images), "data", <<>>) = <<>>
    THEN LegacyCreateAll(its, Tail(images))
    ELSE IF ~b64decode(Head(images).data).ok THEN [items |-> its, ok |-> FALSE]
    ELSE \* setPos or setScale raises for a value that is no number
         IF loadFromData(b64decode(Head(images).data).bytes)
            /\ ~( /\ IsNumber(Get(Head(images), "x", Zero))
                  /\ IsNumber(Get(Head(images), "y", Zero))
                  /\ IsNumber(Get(Head(images), "scale", One)) )
    THEN [items |-> its, ok |-> FALSE]
    ELSE LegacyCreateAll(
             create_item_from_data(its, b64decode(Head(images).data).bytes,
                                   Get(Head(images), "x", Zero),
                                   Get(Head(images), "y", Zero),
                                   Get(Head(images), "scale", One)),
             Tail(images))

legacy_load_board(its, doc) ==
    IF doc \in {NoFile, Malformed} THEN [items |-> its, ok |-> FALSE]
    ELSE IF doc = NotObject THEN [items |-> <<>>, ok |-> FALSE]
    ELSE LegacyCreateAll(<<>>, Get(doc, "images", <<>>))

LegacyLoadBoard ==
    /\ file # NoFile
    /\ items' = legacy_load_board(items, file).items
    /\ UNCHANGED <<grabber, view, mouse, buttons, gestures, presses, file, notches, dropped>>

NextLegacy ==
    \/ \E data \in Payloads, p \in DropPoints : DropFile(data, p)
    \/ \E doc \in Documents : WriteFile(doc)
    \/ LegacyLoadBoard

(* Editing the board between gestures: the wheel and the delete command,   *)
(* from the board of Init with any selection that clicks, Ctrl+clicks or   *)
(* a rubber band leave on it.                                              *)
NextEdit ==
    \/ \E dy \in WheelDeltas, ctrl \in BOOLEAN : Wheel(dy, ctrl)
    \/ DeleteSelected
    \/ \E paths \in PathLists, p \in DropPoints : DropUrls(paths, p)

InitEdit ==
    /\ \E S \in SUBSET (1..Len(StartBoard)) :
         items = [i \in 1..Len(StartBoard) |->
                    [CreateAll(<<>>, StartBoard)[i] EXCEPT !.selected = (i \in S)]]
    /\ grabber = 0
    /\ view = RefView
    /\ mouse = IPt(90, 120)
    /\ buttons = {}
    /\ gestures = 0
    /\ presses = 0
    /\ file = NoFile
    /\ notches = <<>>
    /\ dropped = <<>>

SpecEdit == InitEdit /\ [][NextEdit]_vars

SpecLegacy == InitCodec /\ [][NextLegacy]_vars

(* Pointing at, clicking and resizing the items of a loaded board, with    *)
(* further loads in between.                                               *)
HoverPoints == {IPt(5, 7), IPt(0, 0), IPt(90, 120)}

NextHover ==
    \/ \E mod \in Mods : MousePress("left", mod)
    \/ \E p \in HoverPoints : MouseMove(viewFromScene(view, p))
    \/ \E ctrl \in BOOLEAN : MouseRelease("left", ctrl)
    \/ LoadBoard
    \/ \E doc \in Documents : WriteFile(doc)

SpecHover == InitCodec /\ [][NextHover]_vars

(* The values the codec is to carry, and how often each occurs in a scene. *)
Placed(it) ==
    [x |-> it.pos.x, y |-> it.pos.y, scale |-> it.scale, rotation |-> it.rotation,
     data |-> it.image_data]

Count(its, a) == Cardinality({k \in 1..Len(its) : Placed(its[k]) = a})

SameItems(its, other) ==
    /\ Len(its) = Len(other)
    /\ \A k \in 1..Len(its) : Count(its, Placed(its[k])) = Count(other, Placed(its[k]))

(* C10: saving a scene and loading the saved document gives, for every     *)
(* item, an item with the same x, y, scale and rotation and the same       *)
(* payload bytes, and no other item.                                       *)
C10_RoundTrip == SameItems(load_board(<<>>, save_board(items)), items)

C10_Reloaded ==
    /\ file \notin {NoFile, Malformed}
    /\ file = save_board(Reverse(items))
    /\ items = load_board(<<>>, file)
    /\ Len(items) = 3
    /\ \E j, k \in 1..Len(items) :
         /\ items[j].image_data = PngA /\ items[k].image_data = PngB
         /\ items[j].scale # items[k].scale
         /\ items[j].pos # items[k].pos

(* The stack of a scene, bottom first: what each item is and where. *)
Stack(its) == [k \in 1..Len(its) |-> Placed(its[k])]

(* C11: saving a scene and loading the saved document stacks the items in  *)
(* the same bottom-to-top order as before the save.                        *)
C11_ZOrderPreserved == Stack(load_board(<<>>, save_board(items))) = Stack(items)

(* The load of doc fails: the file cannot be read or parsed, the document  *)
(* is no object or holds a record that is none, or a decoded record makes  *)
(* create_item_from_data raise.                                            *)
RaisesIn(result) == \E k \in 1..Len(result) : Raises(result[k])

LoadFails(doc) ==
    \/ ~load_board_data(doc).success
    \/ RaisesIn(load_board_data(doc).result)

(* C12: a board load that fails leaves the scene's items, their transforms *)
(* and the selection exactly as they were before the load.                 *)
C12_FailedLoadKeepsScene ==
    \A doc \in Documents \cup {NoFile} :
        LoadFails(doc) => load_board(items, doc) = items

(* The record's data field is present and decodes to an image. *)
Usable(rec) ==
    /\ "data" \in DOMAIN rec
    /\ b64decode(rec.data).ok
    /\ loadFromData(b64decode(rec.data).bytes)

(* Where the record asks its item to be: x, y and scale, with the          *)
(* defaults 0, 0 and 1 for a field that is absent.                         *)
Asked(rec) ==
    [x |-> IF "x" \in DOMAIN rec THEN rec.x ELSE Zero,
     y |-> IF "y" \in DOMAIN rec THEN rec.y ELSE Zero,
     scale |-> IF "scale" \in DOMAIN rec THEN rec.scale ELSE One,
     data |-> b64decode(rec.data).bytes]

Where(it) == [x |-> it.pos.x, y |-> it.pos.y, scale |-> it.scale, data |-> it.image_data]

UsableRecords(doc) == SelectSeq(Get(doc, "images", <<>>), Usable)

(* C13: a load that succeeds skips every record whose data is absent or    *)
(* does not decode and creates exactly one item for every other record,    *)
(* in document order and at the record's position.                         *)
C13_PartialLoad ==
    ~LoadFails(file) =>
        LET loaded == load_board(items, file)
            usable == UsableRecords(file)
        IN  /\ Len(loaded) = Len(usable)
            /\ \A k \in 1..Len(loaded) : Where(loaded[k]) = Asked(usable[k])

(* A document of three records, one of them corrupt, has been loaded. *)
C13_TwoOfThree ==
    /\ ~LoadFails(file)
    /\ Len(Get(file, "images", <<>>)) = 3
    /\ Len(UsableRecords(file)) = 2
    /\ ~Usable(file.images[3])
    /\ Len(items) = 2
    /\ \A k \in 1..2 : Where(items[k]) = Asked(file.images[k])

(* C14: after a load whose decoding succeeded the scene holds exactly one  *)
(* item per decoded record, at the record's x, y and scale, in place of    *)
(* all former items, and nothing is selected: never the old items removed  *)
(* and only part of the new ones added.                                    *)
C14_LoadReplacesAll ==
    load_board_data(file).success =>
        LET decoded == load_board_data(file).result
            loaded == load_board(items, file)
        IN  /\ Len(loaded) = Len(decoded)
            /\ \A k \in 1..Len(loaded) :
                  /\ loaded[k].pos = Pt(decoded[k].x, decoded[k].y)
                  /\ loaded[k].scale = decoded[k].scale
                  /\ loaded[k].image_data = decoded[k].data
                  /\ ~loaded[k].selected

(* C15: an item loaded from a record has the record's rotation, and        *)
(* rotation 0 when the record has none.                                    *)
C15_RotationCarried ==
    ~LoadFails(file) =>
        LET loaded == load_board(items, file)
            usable == UsableRecords(file)
        IN  \A k \in 1..Len(loaded) :
              loaded[k].rotation =
                  IF "rotation" \in DOMAIN usable[k] THEN usable[k].rotation ELSE Zero

(* C16: a save that fails, at the opening of the file or at the writing of *)
(* the document, leaves the file's previous contents as they were.         *)
C16_FailedSaveKeepsFile ==
    [][ \A fault \in Faults \ {"none"} :
          (file # NoFile /\ SaveBoard(fault)) => file' = file ]_vars

(* What a record of a saved document stands for: its fields, with the     *)
(* data decoded.                                                           *)
Recorded(rec) ==
    [x |-> rec.x, y |-> rec.y, scale |-> rec.scale, rotation |-> rec.rotation,
     data |-> b64decode(rec.data).bytes]

RecordCount(images, a) == Cardinality({k \in 1..Len(images) : Recorded(images[k]) = a})

(* C17: a save writes a document of version 2 with exactly one record (x,  *)
(* y, scale, rotation, base64 data) for every item of the scene, and       *)
(* leaves the scene's items, transforms and selection as they were.        *)
C17_SaveWritesAll ==
    [][ SaveBoard("none") =>
          /\ file'.version = 2
          /\ Len(file'.images) = Len(items)
          /\ \A k \in 1..Len(items) :
                /\ DOMAIN file'.images[k] = {"x", "y", "scale", "rotation", "data"}
                /\ b64decode(file'.images[k].data).ok
                /\ RecordCount(file'.images, Placed(items[k])) = Count(items, Placed(items[k]))
          /\ items' = items ]_vars

(* A scene of three items, one of them selected, has been saved. *)
C17_Saved ==
    /\ Len(items) = 3
    /\ SelectedIdx(items) = {1}
    /\ file = save_board(items)
    /\ Len(file.images) = 3

(* C18: a loaded record without x or y is placed with that coordinate 0    *)
(* and one without scale gets scale 1; no record with usable data is       *)
(* rejected for lacking them.                                              *)
C18_MissingFieldDefaults ==
    ~LoadFails(file) =>
        LET loaded == load_board(items, file)
            usable == UsableRecords(file)
        IN  /\ Len(loaded) = Len(usable)
            /\ \A k \in 1..Len(loaded) :
                  /\ "x" \notin DOMAIN usable[k] => loaded[k].pos.x = RInt(0)
                  /\ "y" \notin DOMAIN usable[k] => loaded[k].pos.y = RInt(0)
                  /\ "scale" \notin DOMAIN usable[k] => loaded[k].scale = RInt(1)

(* A record with data only has been loaded. *)
C18_LoadedBare ==
    /\ ~LoadFails(file)
    /\ items = load_board(<<>>, file)
    /\ Len(items) >= 1
    /\ DOMAIN file.images[1] = {"data"}
    /\ items[1].image_data = b64decode(file.images[1].data).bytes
    /\ items[1].pos = IPt(0, 0)
    /\ items[1].scale = RInt(1)

(***************************************************************************)
(* Properties of the interaction handlers.                                 *)
(***************************************************************************)
Resizing(its) == {i \in 1..Len(its) : its[i].is_resizing}

(* The bounding box of the scene rectangles of the selected items, taken   *)
(* coordinate by coordinate; rectangles without area count only when no    *)
(* selected item has one.                                                  *)
Least(S) == CHOOSE a \in S : \A b \in S : RLe(a, b)
Greatest(S) == CHOOSE a \in S : \A b \in S : RLe(b, a)

BoundingBox(R) ==
    LET l == Least({r.x : r \in R})
        t == Least({r.y : r \in R})
        g == Greatest({RAdd(r.x, r.w) : r \in R})
        b == Greatest({RAdd(r.y, r.h) : r \in R})
    IN  Rect(l, t, RSub(g, l), RSub(b, t))

SelectionBox(its) ==
    LET all == {sceneBoundingRect(its[j]) : j \in SelectedIdx(its)}
        solid == {r \in all : ~isNull(r)}
    IN  BoundingBox(IF solid = {} THEN all ELSE solid)

(* The corner of rectangle r diagonally opposite the named corner. *)
OppositeCorner(corner, r) ==
    Pt(IF corner \in {"tl", "bl"} THEN RAdd(r.x, r.w) ELSE r.x,
       IF corner \in {"tl", "tr"} THEN RAdd(r.y, r.h) ELSE r.y)

(* Item i enters the resize gesture in this step. *)
Enters(i) == ~items[i].is_resizing /\ items'[i].is_resizing

(* This step is a pointer move delivered to the resizing item i. *)
MovesDuring(i) ==
    items[i].is_resizing /\ grabber = i /\ ~view.is_panning /\ mouse' # mouse

StartDist(it) == QLineLength(it.anchor_scene_pos, it.start_mouse_pos)

Degenerate(it) == it.is_resizing /\ RLt(StartDist(it), Epsilon)

Geometry(its) == [j \in 1..Len(its) |-> <<its[j].scale, its[j].pos>>]

Idle(v, its) == ~v.is_panning /\ Resizing(its) = {}

LeftReleased == "left" \in buttons /\ buttons' = buttons \ {"left"}
LeftPressed == "left" \notin buttons /\ buttons' = buttons \cup {"left"}

(* C1: after every pointer move of a gesture with start distance at least  *)
(* 1e-5 each selected item has scale = its snapshot scale * r and          *)
(* position = A + (its snapshot position - A) * r, for the gesture's       *)
(* anchor A and r = |A - pointer| / start distance.                        *)
C1_GroupResizeFormula ==
    [][ \A i \in 1..Len(items) :
          (MovesDuring(i) /\ ~RLt(StartDist(items[i]), Epsilon)) =>
            LET A == items[i].anchor_scene_pos
                r == RDiv(QLineLength(A, mapToScene(view', mouse')), StartDist(items[i]))
            IN  \A j \in SelectedIdx(items') :
                  /\ items[j].snap = "set"
                  /\ items'[j].scale = RMul(items[j].start_scale, r)
                  /\ items'[j].pos = PAdd(A, PScale(PSub(items[j].start_pos, A), r)) ]_vars

(* C2: on entering a resize the anchor is the corner, diagonally opposite  *)
(* the armed corner, of the union of the scene rectangles of all items     *)
(* selected at the press.                                                  *)
C2_AnchorOpposite ==
    [][ \A i \in 1..Len(items) :
          Enters(i) =>
            items'[i].anchor_scene_pos =
                OppositeCorner(items'[i].resize_corner, SelectionBox(items)) ]_vars

C2_GroupEntered ==
    \E i \in Resizing(items) :
        /\ Cardinality(SelectedIdx(items)) = 2
        /\ items[i].selected
        /\ items[i].start_mouse_pos = MouseScene
        /\ items[i].anchor_scene_pos #
               OppositeCorner(items[i].resize_corner, sceneBoundingRect(items[i]))

(* C3: for every pointer move of a resize gesture the corner of the        *)
(* selected group's bounding box opposite the pressed corner stays at the  *)
(* anchor.                                                                 *)
C3_AnchorCornerFixed ==
    [][ \A i \in 1..Len(items) :
          (MovesDuring(i) /\ SelectedIdx(items') # {}) =>
            OppositeCorner(items[i].resize_corner, SelectionBox(items'))
                = items[i].anchor_scene_pos ]_vars

(* C4: in every reachable state every item of the scene has scale > 0. *)
C4_ScalePositive == \A i \in 1..Len(items) : RLt(Zero, items[i].scale)

(* C6: panning and resizing are mutually exclusive: in no reachable state  *)
(* are the view's panning flag and an item's resizing flag both set.       *)
C6_PanResizeExclusive == ~(view.is_panning /\ Resizing(items) # {})

(* C7: whenever a resize gesture is active, releasing the left button ends *)
(* it: after the release no item has its resizing flag set, whatever pan   *)
(* events came in between.                                                 *)
C7_ReleaseEndsResize ==
    [][ (Resizing(items) # {} /\ "left" \in buttons /\ buttons' = buttons \ {"left"})
            => Resizing(items') = {} ]_vars

(* C5: in a gesture whose start distance is below 1e-5 no pointer move     *)
(* changes an item's scale or position, and releasing the left button      *)
(* leaves the controller idle.                                             *)
C5_DegenerateGesture ==
    [][ \A i \in 1..Len(items) :
          Degenerate(items[i]) =>
            /\ (mouse' # mouse => Geometry(items') = Geometry(items))
            /\ (LeftReleased => Idle(view', items')) ]_vars

ReleasedAfter(pressed, m) ==
    viewMouseRelease(pressed.items, pressed.grabber, pressed.view, m, "left", {}, FALSE)

ClickedShift(its, v, m, order) ==
    ReleasedAfter(viewMousePress(its, 0, v, m, "left", "shift", order), m)

(* C9: a shift+left-click on an item (no button down before, space not     *)
(* held) toggles that item's selection membership and leaves every other   *)
(* item's membership as it was.                                            *)
C9_ShiftClickToggle ==
    (buttons = {} /\ ~view.space_pressed /\ ItemAt(items, MouseScene) # 0) =>
        LET t == ItemAt(items, MouseScene)
        IN  \A order \in Orders(items) :
              SelectedIdx(ClickedShift(items, view, mouse, order).items) =
                 IF items[t].selected THEN SelectedIdx(items) \ {t}
                                      ELSE SelectedIdx(items) \cup {t}

(* The view after the release of button b in the current state. *)
AfterRelease(b) ==
    viewMouseRelease(items, grabber, view, mouse, b, buttons \ {b}, FALSE).view

(* C19: a pan stays until the release of the button that started it.  With *)
(* two buttons down during a pan only one of them started it, so the       *)
(* release of the other one leaves the view panning.                       *)
C19_PanUntilStarterReleased ==
    (view.is_panning /\ Cardinality(buttons) >= 2) =>
        \E b \in buttons : AfterRelease(b).is_panning

(* The view after a pointer move to q, from view v of the current state. *)
PanMoved(v, q) ==
    viewMouseMove(items, grabber, v, q, buttons, CHOOSE c \in LoopChoices(items) : TRUE).view

(* Pointer steps of a pan drag, in view coordinates, and the zoom levels   *)
(* one wheel notch away from 1.                                            *)
PanSteps == {IPt(10, 0), IPt(-3, 7), IPt(0, -20)}
PanZooms == {One, Rat(11, 10), Rat(9, 10)}

PanTwice(v, q1, q2) == PanMoved(PanMoved(v, q1), q2)

(* C20: while panning, a pointer move takes the move's delta from the      *)
(* scroll offset and makes the new position the pan start, so that after   *)
(* two moves the offset has changed by minus (pointer position - position  *)
(* before the moves), the same as after one move to the end position, at   *)
(* every zoom level (scroll values inside the range of the scroll bars).   *)
C20_PanOffset ==
    view.is_panning =>
        \A z \in PanZooms, d1 \in PanSteps, d2 \in PanSteps :
            /\ PanMoved([view EXCEPT !.zoom = z], PAdd(mouse, d1)).scroll
                    = PSub(view.scroll, d1)
            /\ PanMoved([view EXCEPT !.zoom = z], PAdd(mouse, d1)).pan_start
                    = PAdd(mouse, d1)
            /\ PanTwice([view EXCEPT !.zoom = z], PAdd(mouse, d1), PAdd(PAdd(mouse, d1), d2)).scroll
                    = PSub(view.scroll, PAdd(d1, d2))
            /\ PanTwice([view EXCEPT !.zoom = z], PAdd(mouse, d1), PAdd(PAdd(mouse, d1), d2)).scroll
                    = PanMoved([view EXCEPT !.zoom = z], PAdd(PAdd(mouse, d1), d2)).scroll

(* A pan move has acted: the view is panning and has been scrolled. *)
C20_Panned ==
    /\ view.is_panning
    /\ view.scroll # Origin
    /\ view.pan_start = mouse

(* C21: a press or release of the space key changes the space flag and     *)
(* nothing else: not the panning flag, the pan start, the camera, the      *)
(* items (their resize state included), the grabber or the buttons.        *)
C21_SpaceOnlyFlag ==
    [][ view'.space_pressed # view.space_pressed =>
          /\ view' = [view EXCEPT !.space_pressed = ~view.space_pressed]
          /\ items' = items
          /\ grabber' = grabber
          /\ buttons' = buttons
          /\ mouse' = mouse ]_vars

(* Space has been let go in the middle of a space+left pan. *)
C21_SpaceUpWhilePanning ==
    /\ view.is_panning
    /\ ~view.space_pressed
    /\ buttons = {"left"}

(* C22: a plain wheel notch forward followed by a plain notch backward     *)
(* restores the camera zoom, the backward notch multiplying it by 1/1.1.   *)
Notch(dy) == [dy |-> dy, ctrl |-> FALSE]

C22_WheelRoundTrip ==
    notches = <<Notch(120), Notch(-120)>> => view.zoom = RefView.zoom

(* C23: a wheel event with Ctrl held multiplies the scale of every         *)
(* selected item by one and the same factor and leaves every position,     *)
(* every unselected item and the camera as they were; with nothing         *)
(* selected it changes nothing, and the camera does not zoom instead.      *)
C23_CtrlWheelScalesSelection ==
    [][ (Len(notches') = Len(notches) + 1 /\ notches'[Len(notches')].ctrl) =>
          /\ view' = view
          /\ Len(items') = Len(items)
          /\ \E factor \in {Rat(11, 10), Rat(9, 10)} :
               \A i \in 1..Len(items) :
                   items'[i] = IF items[i].selected
                               THEN [items[i] EXCEPT !.scale = RMul(@, factor)]
                               ELSE items[i]
          /\ (SelectedIdx(items) = {} => items' = items) ]_vars

C23_TwoScaledOneKept ==
    /\ notches = <<[dy |-> 120, ctrl |-> TRUE]>>
    /\ Len(items) = 3
    /\ SelectedIdx(items) = {1, 2}
    /\ items[1].scale = Rat(22, 10)
    /\ items[2].scale = Rat(11, 10)
    /\ items[3].scale = One

(* C24: the delete command removes exactly the selected items and keeps    *)
(* the unselected ones as they were and in their order; nothing is left    *)
(* to delete afterwards, so a second delete, like a delete with nothing    *)
(* selected, changes nothing.                                              *)
C24_DeleteRemovesSelection ==
    /\ [][ Len(items') < Len(items) =>
             LET U == {i \in 1..Len(items) : ~items[i].selected}
                 nth(k) == CHOOSE i \in U : Cardinality({j \in U : j < i}) = k - 1
             IN  /\ Len(items') = Cardinality(U)
                 /\ \A k \in 1..Len(items') : items'[k] = items[nth(k)]
                 /\ SelectedIdx(items') = {}
                 /\ delete_selected(items') = items'
                 /\ UNCHANGED <<grabber, view, mouse, buttons, file, notches, dropped>> ]_vars
    /\ [](SelectedIdx(items) = {} => delete_selected(items) = items)

C24_FirstDeleted ==
    /\ Len(items) = 2
    /\ items[1].image_data = PngB
    /\ items[2].image_data = PngA
    /\ SelectedIdx(items) = {}

(* C25: in an import of several paths, a path whose file cannot be read or *)
(* is no image creates no item and changes nothing, and every other path   *)
(* creates exactly one item, of its own file, in the order of the paths.   *)
C25_BadPathsSkipped ==
    [][ Len(dropped') > Len(dropped) =>
          LET paths == dropped'[Len(dropped')].paths
              G == {k \in 1..Len(paths) : paths[k].local /\ loadFromData(paths[k].data)}
              nth(n) == CHOOSE k \in G : Cardinality({j \in G : j < k}) = n - 1
          IN  /\ Len(items') = Len(items) + Cardinality(G)
              /\ SubSeq(items', 1, Len(items)) = items
              /\ \A n \in 1..Cardinality(G) :
                     items'[Len(items) + n].image_data = paths[nth(n)].data ]_vars

C25_GoodBadGood ==
    /\ dropped # <<>>
    /\ dropped[1].paths = <<Path(TRUE, PngA), Path(TRUE, Garbage), Path(TRUE, PngA)>>
    /\ Len(items) = 4

(* C26: the items one import creates form a cascade: each is 20 to the     *)
(* right of and 20 below the item the import created before it.            *)
C26_CascadeFromPrevious ==
    [][ Len(dropped') > Len(dropped) =>
          \A k \in (Len(items) + 2)..Len(items') :
              items'[k].pos = PAdd(items'[k - 1].pos, IPt(20, 20)) ]_vars

(* C27: with no button down and no gesture in progress, an item with an    *)
(* armed corner is selected and the pointer is within the grab margin of   *)
(* that corner.                                                            *)
C27_ArmedOnlyUnderPointer ==
    (buttons = {} /\ Idle(view, items)) =>
        \A i \in 1..Len(items) :
            items[i].resize_corner # NoCorner =>
                /\ items[i].selected
                /\ RMul(items[i].scale, view.zoom) # Zero
                /\ HoverCorner(items[i], MouseScene, view.zoom) = items[i].resize_corner

(* C28: once a group-resize gesture has ended no item holds a start scale  *)
(* and start position stored by its press.                                 *)
C28_NoSnapshotAfterGesture ==
    Resizing(items) = {} => \A i \in 1..Len(items) : items[i].snap # "set"

(* C30: the press that enters a group resize, the pointer moves delivered  *)
(* to the resizing item and the release that ends it change only the       *)
(* scale and position of selected items: the unselected items, the         *)
(* selection, the order of the items and the camera stay as they were.     *)
C30_ResizeFrame ==
    [][ ( \/ \E i \in 1..Len(items) : Enters(i) \/ MovesDuring(i)
          \/ (Resizing(items) # {} /\ LeftReleased) ) =>
          /\ Len(items') = Len(items)
          /\ \A j \in 1..Len(items) :
                 /\ items'[j].image_data = items[j].image_data
                 /\ items'[j].rotation = items[j].rotation
                 /\ items'[j].selected = items[j].selected
                 /\ (~items[j].selected =>
                        /\ items'[j].scale = items[j].scale
                        /\ items'[j].pos = items[j].pos)
          /\ view'.zoom = view.zoom
          /\ view'.scroll = view.scroll ]_vars

(* C29: in the single-file application a board load that fails after the   *)
(* file was opened (a file that does not parse, a document or record of    *)
(* the wrong structure, a record whose base64 does not decode) leaves the  *)
(* scene's items as they were.                                             *)
C29_LegacyFailedLoadKeepsScene ==
    \A doc \in Documents :
        ~legacy_load_board(items, doc).ok => legacy_load_board(items, doc).items = items

(* C35: a wheel event with a vertical delta of zero changes neither the    *)
(* camera zoom nor, with Ctrl, the scale of an item.                       *)
C35_ZeroDeltaWheel ==
    [][ (Len(notches') = Len(notches) + 1 /\ notches'[Len(notches')].dy = 0) =>
          /\ view'.zoom = view.zoom
          /\ \A i \in 1..Len(items) : items'[i].scale = items[i].scale ]_vars

C33_ShiftClickNeverResizes ==
    (buttons = {} /\ ~view.space_pressed /\ ItemAt(items, MouseScene) # 0) =>
        \A order \in Orders(items) :
            /\ Resizing(viewMousePress(items, 0, view, mouse, "left", "shift", order).items) = {}
            /\ Geometry(ClickedShift(items, view, mouse, order).items) = Geometry(items)

C32_PathIndependent ==
    \A g \in Resizing(items) :
        (grabber = g /\ ~view.is_panning) =>
            \A c \in LoopChoices(items) :
                /\ \A q1 \in ScenePoints, q2 \in ScenePoints :
                       ( /\ HasRationalLength(items[g].anchor_scene_pos, q1)
                         /\ HasRationalLength(items[g].anchor_scene_pos, q2) ) =>
                           Geometry(itemMouseMove(itemMouseMove(items, g, q1, c), g, q2, c))
                               = Geometry(itemMouseMove(items, g, q2, c))
                /\ \A j \in SelectedIdx(items) :
                       /\ items[j].snap = "set" =>
                             /\ itemMouseMove(items, g, items[g].start_mouse_pos, c)[j].scale
                                    = items[j].start_scale
                             /\ itemMouseMove(items, g, items[g].start_mouse_pos, c)[j].pos
                                    = items[j].start_pos
                       /\ (items[j].snap = "init" /\ MouseScene = items[g].start_mouse_pos) =>
                             /\ itemMouseMove(items, g, MouseScene, c)[j].scale = items[j].scale
                             /\ itemMouseMove(items, g, MouseScene, c)[j].pos = items[j].pos
====
